---- MODULE Spec2Model ----
(***************************************************************************)
(* Model of Section_3_Memory_Management.ipynb:                             *)
(*   - the CUDA C vector-addition program appended to the notebook         *)
(*     (lines 477-545): host main, the vector_add kernel, the device;      *)
(*   - the notebook session (lines 1-452): the cells that stage arrays on  *)
(*     the device and call the vectorized functions.                       *)
(* In the C program a float32 is modelled on a fixed-point grid: an        *)
(* integer m stands for m * 2^-22 (so 1.0f is 2^22), and every operation   *)
(* rounds its exact result to the 24-bit significand (round half to even). *)
(* In the notebook a float32 or float64 is the exact binary value          *)
(* (sign, odd significand, exponent) and every operation is the IEEE 754   *)
(* operation: the exact result rounded to 24 or 53 bits, half to even.     *)
(***************************************************************************)
EXTENDS Integers, Sequences, FiniteSets, TLC

VARIABLES
    pc,       \* main: the statement about to execute, or how the process ended:
              \* "returned" / "aborted" (SIGABRT) / "segfault" (SIGSEGV)
    i,        \* main: loop variable of the running for loop
    hbuf,     \* host heap contents: a, b, out
    hstate,   \* host pointers: "none" / "allocated" / "null" / "freed"
    dbuf,     \* device memory contents: d_a, d_b, d_out
    dstate,   \* device buffers: "none" / "allocated" / "freed"
    kstate,   \* kernel: "idle" / "running" / "done" / "failed" / "faulted"
    kn,       \* kernel argument n
    ki,       \* kernel: loop variable i of every thread
    sticky,   \* the device context is in a (sticky) error state
    writes,   \* history: <<thread, index>> of every store of the kernel to out
    calls,    \* history: the library calls and statements main has executed
    failed,   \* history: the CUDA calls that returned an error (main discards it)
    checked,  \* history: the indices whose assertion has been evaluated
    stdout,   \* what main has printed
    nbDev,    \* notebook: the device arrays by name
    nbHost,   \* notebook: the host arrays the cells have produced
    nbH2D,    \* notebook: host-to-device copies so far
    nbD2H,    \* notebook: device-to-host copies so far
    nbAlloc,  \* notebook: device allocations so far
    nbLog,    \* notebook: the calls executed, each with what it cost
    mpArgs,   \* make_pulses: <<i, period, amplitude>> of a call, or << >>
    mpOut     \* make_pulses: <<the values of the call: i / period, its sine, the
              \* value returned>>, or << >> before the return

cvars == <<pc, i, hbuf, hstate, dbuf, dstate, kstate, kn, ki, sticky,
           writes, calls, failed, checked, stdout>>

nbvars == <<nbDev, nbHost, nbH2D, nbD2H, nbAlloc, nbLog>>

\* a call of make_pulses on its own: the arguments and the value returned
mpvars == <<mpArgs, mpOut>>

vars == <<cvars, nbvars, mpvars>>

----------------------------------------------------------------------------
(* Bounds and program constants *)

\* #define N 10000, scaled down to keep the state space finite
N == 3

\* #define MAX_ERR 1E-6, as the denominator of 1 / 1000000
MAX_ERR_DEN == 1000000

\* mutant: two threads per block
BlockDimTwo == 1 + 1

\* vector_add<<<1,1>>>: grid and block dimension
GridDim == 1
BlockDim == 1

----------------------------------------------------------------------------
(* float32 on the fixed-point grid *)

One == 2^22
Two == 2 * One
Three == 3 * One
Mantissa == 2^24

Abs(x) == IF x < 0 THEN -x ELSE x

RECURSIVE QuantumFrom(_, _)
QuantumFrom(m, q) == IF m < Mantissa * q THEN q ELSE QuantumFrom(m, 2 * q)

\* spacing of the float32 values around magnitude m
Quantum(m) == QuantumFrom(m, 1)

RoundHalfEven(m, q) ==
    LET lo == (m \div q) * q
        r  == m - lo
    IN  IF 2 * r < q THEN lo
        ELSE IF 2 * r > q THEN lo + q
        ELSE IF (lo \div q) % 2 = 0 THEN lo ELSE lo + q

FRound(x) ==
    IF x >= 0 THEN RoundHalfEven(x, Quantum(x))
              ELSE -RoundHalfEven(-x, Quantum(-x))

\* a NaN, which no value of the grid is: arithmetic on it gives it back and
\* every comparison with it is false
NaN == 2^30

\* +infinity, which no value of the grid is either; -infinity is -Inf
Inf == 2^29

\* x + y: a NaN operand, or infinities of opposite sign, give a NaN; an
\* infinity plus anything else is that infinity; sums of grid values stay
\* far below the float32 range
FAdd(x, y) ==
    IF x = NaN \/ y = NaN THEN NaN
    ELSE IF Abs(x) = Inf /\ Abs(y) = Inf THEN (IF x = y THEN x ELSE NaN)
    ELSE IF Abs(x) = Inf THEN x
    ELSE IF Abs(y) = Inf THEN y
    ELSE FRound(x + y)

\* x - y = x + (-y)
FSub(x, y) == IF y = NaN THEN NaN ELSE FAdd(x, -y)

\* mutant: a tolerance of 1E-5
WithinMaxErrLoose(d) == d # NaN /\ Abs(d) <= (10 * One - 1) \div MAX_ERR_DEN

\* fabs(d) < MAX_ERR, d on the grid: |d| * 2^-22 < 10^-6, that is
\* |d| * 10^6 < 2^22, computed without leaving 32 bits
WithinMaxErr(d) == d # NaN /\ Abs(d) <= (One - 1) \div MAX_ERR_DEN

\* printf("%f"): the value rounded to six decimals, as a count of 10^-6; the
\* exact value v * 10^6 / 2^22 = v * 15625 / 65536 is rounded to the nearest
\* count, a tie to the even one (the product is split to stay within 32 bits);
\* a NaN is printed as nan, an infinity as inf or -inf
FormatF(v) ==
    LET m  == Abs(v)
        hi == m \div 65536
        lo == m % 65536
        q  == hi * 15625 + ((lo * 15625) \div 65536)
        r  == (lo * 15625) % 65536
        n  == IF 2 * r < 65536 THEN q
              ELSE IF 2 * r > 65536 THEN q + 1
              ELSE IF q % 2 = 0 THEN q ELSE q + 1
    IN  IF v = NaN \/ Abs(v) = Inf THEN v ELSE IF v < 0 THEN -n ELSE n

----------------------------------------------------------------------------
(* Memory *)

HostBufs == {"a", "b", "out"}
DevBufs == {"d_a", "d_b", "d_out"}
Idx == 0 .. (N - 1)

\* an indeterminate float: the content of memory that malloc/cudaMalloc
\* returned and nothing wrote yet, or a value computed from such content; it
\* becomes one definite value when main looks at it
Uninit == 0 - 1

\* what a read of uninitialised float memory may yield: any bit pattern; of
\* these 0.0, 1.0, the ends of the tolerance around 3.0 (3.0 - 4 ulp and
\* 3.0 + 4 ulp, printed as 2.999999 and 3.000001), 3.0 itself, 3.0 + 5 ulp
\* (outside the tolerance), 0x40404040 (3.0039...), the two infinities and
\* a NaN.  Finite values beyond the grid (such as 0xfefefefe, -1.69E38) are
\* not among them; as the infinities do, they fail the assertion
Garbage ==
    {0, One, Three - 4, Three, Three + 4, Three + 5, Three + 16448, Inf, -Inf, NaN}

Load(v) == IF v = Uninit THEN Garbage ELSE {v}

\* sizeof(float)
SizeofFloat == 4

\* sizeof(float) * N: the byte count given to every malloc, cudaMalloc and
\* cudaMemcpy
BufBytes == SizeofFloat * N

\* how many float elements a block of that many bytes holds
ElemCount(bytes) == bytes \div SizeofFloat

Fresh == [j \in 0 .. (ElemCount(BufBytes) - 1) |-> Uninit]

\* what a NULL pointer points to: no element at all
NoBlock == [j \in {} |-> Uninit]

\* memcpy of count elements from src over dst
CopyElems(dst, src, count) ==
    [j \in DOMAIN dst |-> IF j < count THEN src[j] ELSE dst[j]]

\* mutant: the launch passes one element too many
LaunchArgOffByOne == N + 1

\* the n passed at the launch: vector_add<<<1,1>>>(d_out, d_a, d_b, N)
LaunchArg == N

----------------------------------------------------------------------------
(* main: the order of its statements (lines 501-545) *)

\* mutant: the device buffers are freed before the result is copied back
ProgramFreeEarly ==
    << "malloc_a", "malloc_b", "malloc_out", "init",
       "cudaMalloc_a", "cudaMalloc_b", "cudaMalloc_out",
       "h2d_a", "h2d_b", "launch",
       "cudaFree_a", "cudaFree_b", "cudaFree_out", "d2h_out", "verify",
       "print_out0", "print_passed",
       "free_a", "free_b", "free_out", "returned" >>

\* mutant: "PASSED" is printed before the verification loop
ProgramPrintEarly ==
    << "malloc_a", "malloc_b", "malloc_out", "init",
       "cudaMalloc_a", "cudaMalloc_b", "cudaMalloc_out",
       "h2d_a", "h2d_b", "launch", "d2h_out",
       "print_out0", "print_passed", "verify",
       "cudaFree_a", "cudaFree_b", "cudaFree_out",
       "free_a", "free_b", "free_out", "returned" >>

\* mutant: d_out is never freed
ProgramLeak ==
    << "malloc_a", "malloc_b", "malloc_out", "init",
       "cudaMalloc_a", "cudaMalloc_b", "cudaMalloc_out",
       "h2d_a", "h2d_b", "launch", "d2h_out", "verify",
       "print_out0", "print_passed",
       "cudaFree_a", "cudaFree_b",
       "free_a", "free_b", "free_out", "returned" >>

Program ==
    << "malloc_a", "malloc_b", "malloc_out", "init",
       "cudaMalloc_a", "cudaMalloc_b", "cudaMalloc_out",
       "h2d_a", "h2d_b", "launch", "d2h_out", "verify",
       "print_out0", "print_passed",
       "cudaFree_a", "cudaFree_b", "cudaFree_out",
       "free_a", "free_b", "free_out", "returned" >>

PosOf(p) == CHOOSE k \in 1 .. Len(Program) : Program[k] = p

After(p) == Program[PosOf(p) + 1]

Threads == 1 .. (GridDim * BlockDim)

\* mutant: a loop that does not advance its index
IncrStuck(k) == k

\* i++ of the three for loops
Incr(k) == k + 1

MainInit ==
    /\ pc = Program[1]
    /\ i = 0
    /\ hbuf = [h \in HostBufs |-> Fresh]
    /\ hstate = [h \in HostBufs |-> "none"]
    /\ dbuf = [d \in DevBufs |-> Fresh]
    /\ dstate = [d \in DevBufs |-> "none"]
    /\ kstate = "idle"
    /\ kn = 0
    /\ ki = [t \in Threads |-> 0]
    /\ sticky = FALSE
    /\ writes = << >>
    /\ calls = << >>
    /\ failed = {}
    /\ checked = << >>
    /\ stdout = << >>

\* a = (float*)malloc(sizeof(float) * N); malloc returns a block or NULL, and
\* main does not test the pointer
HostMalloc(p, h) ==
    /\ pc = p
    /\ pc' = After(p)
    /\ \E ok \in BOOLEAN :
        IF ok THEN /\ hstate' = [hstate EXCEPT ![h] = "allocated"]
                   /\ hbuf' = [hbuf EXCEPT ![h] = Fresh]
              ELSE /\ hstate' = [hstate EXCEPT ![h] = "null"]
                   /\ hbuf' = [hbuf EXCEPT ![h] = NoBlock]
    /\ calls' = Append(calls, p)
    /\ UNCHANGED <<nbvars, mpvars>>
    /\ UNCHANGED <<i, dbuf, dstate, kstate, kn, ki, sticky, writes, failed,
                   checked, stdout>>

\* where a store or load through a NULL pointer takes main: the process is
\* killed by SIGSEGV
NullAccess(p) == "segfault"

\* for(int i = 0; i < N; i++){ a[i] = 1.0f; b[i] = 2.0f; }
InitStep ==
    /\ pc = "init"
    /\ i < N
    /\ IF hstate["a"] = "null"
       THEN /\ pc' = NullAccess(pc)
            /\ UNCHANGED <<hbuf, i>>
       ELSE IF hstate["b"] = "null"
       THEN /\ hbuf' = [hbuf EXCEPT !["a"][i] = One]
            /\ pc' = NullAccess(pc)
            /\ UNCHANGED i
       ELSE /\ hbuf' = [hbuf EXCEPT !["a"][i] = One, !["b"][i] = Two]
            /\ i' = Incr(i)
            /\ UNCHANGED pc
    /\ UNCHANGED <<nbvars, mpvars>>
    /\ UNCHANGED <<hstate, dbuf, dstate, kstate, kn, ki, sticky, writes,
                   calls, failed, checked, stdout>>

InitDone ==
    /\ pc = "init"
    /\ ~(i < N)
    /\ pc' = After("init")
    /\ i' = 0
    /\ calls' = Append(calls, "init")
    /\ UNCHANGED <<nbvars, mpvars>>
    /\ UNCHANGED <<hbuf, hstate, dbuf, dstate, kstate, kn, ki, sticky, writes,
                   failed, checked, stdout>>

\* mutant: a failed CUDA call ends the process
OnCudaErrorExit(p) == "aborted"

\* where main continues after a CUDA call returned an error: the return value
\* is never inspected, so at the next statement
OnCudaError(p) == After(p)

\* cudaMalloc((void**)&d_a, sizeof(float) * N); the result is discarded
CudaMalloc(p, d) ==
    /\ pc = p
    /\ calls' = Append(calls, p)
    /\ \E ok \in BOOLEAN :
        IF ok /\ ~sticky
        THEN /\ pc' = After(pc)
             /\ dstate' = [dstate EXCEPT ![d] = "allocated"]
             /\ dbuf' = [dbuf EXCEPT ![d] = Fresh]
             /\ UNCHANGED failed
        ELSE /\ pc' = OnCudaError(pc)
             /\ failed' = failed \cup {p}
             /\ UNCHANGED <<dstate, dbuf>>
    /\ UNCHANGED <<nbvars, mpvars>>
    /\ UNCHANGED <<i, hbuf, hstate, kstate, kn, ki, sticky, writes, checked,
                   stdout>>

\* mutant: the copy does not wait for the kernel
NoImplicitSync == TRUE

\* the default stream has no work in flight: a blocking cudaMemcpy returns only then
DefaultStreamIdle == kstate # "running"

\* cudaMemcpy(d_a, a, sizeof(float)*N, cudaMemcpyHostToDevice); result discarded
MemcpyH2D(p, d, h) ==
    /\ pc = p
    /\ DefaultStreamIdle
    /\ calls' = Append(calls, p)
    /\ \E ok \in BOOLEAN :
        IF ok /\ ~sticky /\ dstate[d] = "allocated" /\ hstate[h] = "allocated"
        THEN /\ pc' = After(pc)
             /\ dbuf' = [dbuf EXCEPT ![d] =
                            CopyElems(dbuf[d], hbuf[h], ElemCount(BufBytes))]
             /\ UNCHANGED failed
        ELSE /\ pc' = OnCudaError(pc)
             /\ failed' = failed \cup {p}
             /\ UNCHANGED dbuf
    /\ UNCHANGED <<nbvars, mpvars>>
    /\ UNCHANGED <<i, hbuf, hstate, dstate, kstate, kn, ki, sticky, writes,
                   checked, stdout>>

\* vector_add<<<1,1>>>(d_out, d_a, d_b, N); returns to the host at once
Launch ==
    /\ pc = "launch"
    /\ calls' = Append(calls, "launch")
    /\ kn' = LaunchArg
    /\ ki' = [t \in Threads |-> 0]
    /\ \E ok \in BOOLEAN :
        IF ok /\ ~sticky
        THEN /\ pc' = After(pc)
             /\ kstate' = "running"
             /\ UNCHANGED failed
        ELSE /\ pc' = OnCudaError(pc)
             /\ kstate' = "failed"
             /\ failed' = failed \cup {"launch"}
    /\ UNCHANGED <<nbvars, mpvars>>
    /\ UNCHANGED <<i, hbuf, hstate, dbuf, dstate, sticky, writes, checked,
                   stdout>>

\* mutant: the kernel subtracts
KernelSumSub(x, y) == IF x = Uninit \/ y = Uninit THEN Uninit ELSE FSub(x, y)

\* the value vector_add stores: out[i] = a[i] + b[i]; with an indeterminate
\* operand the sum is indeterminate too (every float is a[i] + b[i] for some
\* content of the uninitialised cell)
KernelSum(x, y) == IF x = Uninit \/ y = Uninit THEN Uninit ELSE FAdd(x, y)

\* mutant: the launch passes d_a where the kernel expects out
KernelArgsSwapped == [out |-> "d_a", a |-> "d_out", b |-> "d_b"]

\* the buffers bound to the kernel's parameters (out, a, b) by
\* vector_add<<<1,1>>>(d_out, d_a, d_b, N); the kernel stores through out only
KernelArgs == [out |-> "d_out", a |-> "d_a", b |-> "d_b"]

\* one iteration of the kernel loop in thread t: out[i] = a[i] + b[i]; i++
KernelStep(t) ==
    /\ kstate = "running"
    /\ ki[t] < kn
    /\ IF \A d \in DevBufs : dstate[d] = "allocated"
       THEN /\ dbuf' = [dbuf EXCEPT ![KernelArgs.out][ki[t]] =
                            KernelSum(dbuf[KernelArgs.a][ki[t]],
                                      dbuf[KernelArgs.b][ki[t]])]
            /\ writes' = Append(writes, <<t, ki[t]>>)
            /\ ki' = [ki EXCEPT ![t] = Incr(ki[t])]
            /\ UNCHANGED <<kstate, sticky>>
       ELSE \* an access through an invalid device pointer kills the kernel
            /\ kstate' = "faulted"
            /\ sticky' = TRUE
            /\ UNCHANGED <<dbuf, writes, ki>>
    /\ UNCHANGED <<nbvars, mpvars>>
    /\ UNCHANGED <<pc, i, hbuf, hstate, dstate, kn, calls, failed, checked,
                   stdout>>

\* every thread has left the loop (i < n is false): the kernel is complete
KernelExit ==
    /\ kstate = "running"
    /\ \A t \in Threads : ~(ki[t] < kn)
    /\ kstate' = "done"
    /\ UNCHANGED <<nbvars, mpvars>>
    /\ UNCHANGED <<pc, i, hbuf, hstate, dbuf, dstate, kn, ki, sticky, writes,
                   calls, failed, checked, stdout>>

\* cudaMemcpy(out, d_out, sizeof(float)*N, cudaMemcpyDeviceToHost); result discarded
MemcpyD2H(p, h, d) ==
    /\ pc = p
    /\ DefaultStreamIdle
    /\ calls' = Append(calls, p)
    /\ \E ok \in BOOLEAN :
        IF ok /\ ~sticky /\ dstate[d] = "allocated" /\ hstate[h] = "allocated"
        THEN /\ pc' = After(pc)
             /\ hbuf' = [hbuf EXCEPT ![h] =
                            CopyElems(hbuf[h], dbuf[d], ElemCount(BufBytes))]
             /\ UNCHANGED failed
        ELSE /\ pc' = OnCudaError(pc)
             /\ failed' = failed \cup {p}
             /\ UNCHANGED hbuf
    /\ UNCHANGED <<nbvars, mpvars>>
    /\ UNCHANGED <<i, hstate, dbuf, dstate, kstate, kn, ki, sticky, writes,
                   checked, stdout>>

\* fabs(out[i] - a[i] - b[i]) < MAX_ERR
AssertHolds(o, x, y) == WithinMaxErr(FSub(FSub(o, x), y))

\* mutant: the assertion is compiled out and main goes on
AssertFailedContinue(p) == After(p)

\* where a failed assert takes main
AssertFailed(p) == "aborted"

\* for(int i = 0; i < N; i++){ assert(fabs(out[i] - a[i] - b[i]) < MAX_ERR); }
VerifyStep ==
    /\ pc = "verify"
    /\ i < N
    /\ IF \E h \in HostBufs : hstate[h] = "null"
       THEN /\ pc' = NullAccess(pc)
            /\ UNCHANGED <<hbuf, checked, i>>
       ELSE \E o \in Load(hbuf["out"][i]) :
            /\ hbuf' = [hbuf EXCEPT !["out"][i] = o]
            /\ checked' = Append(checked, i)
            /\ IF AssertHolds(o, hbuf["a"][i], hbuf["b"][i])
               THEN /\ i' = Incr(i)
                    /\ pc' = pc
               ELSE /\ pc' = AssertFailed(pc)
                    /\ i' = i
    /\ UNCHANGED <<nbvars, mpvars>>
    /\ UNCHANGED <<hstate, dbuf, dstate, kstate, kn, ki, sticky, writes, calls,
                   failed, stdout>>

VerifyDone ==
    /\ pc = "verify"
    /\ ~(i < N)
    /\ pc' = After("verify")
    /\ i' = 0
    /\ calls' = Append(calls, "verify")
    /\ UNCHANGED <<nbvars, mpvars>>
    /\ UNCHANGED <<hbuf, hstate, dbuf, dstate, kstate, kn, ki, sticky, writes,
                   failed, checked, stdout>>

\* printf("out[0] = %f\n", out[0]);
PrintOut0 ==
    /\ pc = "print_out0"
    /\ IF hstate["out"] = "null"
       THEN /\ pc' = NullAccess(pc)
            /\ UNCHANGED <<hbuf, stdout, calls>>
       ELSE /\ pc' = After("print_out0")
            /\ calls' = Append(calls, "print_out0")
            /\ \E o \in Load(hbuf["out"][0]) :
                 /\ hbuf' = [hbuf EXCEPT !["out"][0] = o]
                 /\ stdout' = Append(stdout, [text |-> "out[0] = ", micro |-> FormatF(o)])
    /\ UNCHANGED <<nbvars, mpvars>>
    /\ UNCHANGED <<i, hstate, dbuf, dstate, kstate, kn, ki, sticky, writes,
                   failed, checked>>

\* printf("PASSED\n");
PrintPassed ==
    /\ pc = "print_passed"
    /\ pc' = After("print_passed")
    /\ calls' = Append(calls, "print_passed")
    /\ stdout' = Append(stdout, [text |-> "PASSED", micro |-> 0])
    /\ UNCHANGED <<nbvars, mpvars>>
    /\ UNCHANGED <<i, hbuf, hstate, dbuf, dstate, kstate, kn, ki, sticky,
                   writes, failed, checked>>

\* cudaFree(d_a); result discarded
CudaFree(p, d) ==
    /\ pc = p
    /\ DefaultStreamIdle
    /\ calls' = Append(calls, p)
    /\ \E ok \in BOOLEAN :
        IF ok /\ ~sticky /\ dstate[d] = "allocated"
        THEN /\ pc' = After(pc)
             /\ dstate' = [dstate EXCEPT ![d] = "freed"]
             /\ UNCHANGED failed
        ELSE /\ pc' = OnCudaError(pc)
             /\ failed' = failed \cup {p}
             /\ UNCHANGED dstate
    /\ UNCHANGED <<nbvars, mpvars>>
    /\ UNCHANGED <<i, hbuf, hstate, dbuf, kstate, kn, ki, sticky, writes,
                   checked, stdout>>

\* free(a); free(NULL) does nothing
HostFree(p, h) ==
    /\ pc = p
    /\ pc' = After(p)
    /\ calls' = Append(calls, p)
    /\ hstate' = [hstate EXCEPT ![h] = IF @ = "null" THEN @ ELSE "freed"]
    /\ UNCHANGED <<nbvars, mpvars>>
    /\ UNCHANGED <<i, hbuf, dbuf, dstate, kstate, kn, ki, sticky, writes,
                   failed, checked, stdout>>

----------------------------------------------------------------------------
(* The arithmetic of the notebook's ufuncs: IEEE 754 binary floating point, *)
(* computed exactly.                                                        *)

(* Natural numbers of any size: the sequence of their digits to the base     *)
(* 2^15, lowest digit first, without leading zeros; 0 is the empty sequence. *)

DigitBits == 15
Base == 2^DigitBits

\* a without its leading zeros
Trim(a) ==
    LET n == CHOOSE k \in 0 .. Len(a) :
                 /\ k = 0 \/ a[k] # 0
                 /\ \A l \in (k + 1) .. Len(a) : a[l] = 0
    IN  SubSeq(a, 1, n)

RECURSIVE BigOf(_)
BigOf(n) == IF n = 0 THEN << >> ELSE <<n % Base>> \o BigOf(n \div Base)

Digit(a, k) == IF 1 <= k /\ k <= Len(a) THEN a[k] ELSE 0

Longer(a, b) == IF Len(a) >= Len(b) THEN Len(a) ELSE Len(b)

\* the carry into digit k of a + b: some lower digit produces one and the
\* digits between pass it on
Carry(a, b, k) ==
    IF \E j \in 1 .. (k - 1) :
          /\ Digit(a, j) + Digit(b, j) >= Base
          /\ \A l \in (j + 1) .. (k - 1) : Digit(a, l) + Digit(b, l) = Base - 1
    THEN 1 ELSE 0

BAdd(a, b) ==
    IF a = << >> THEN b
    ELSE IF b = << >> THEN a
    ELSE Trim([k \in 1 .. (Longer(a, b) + 1) |->
                  (Digit(a, k) + Digit(b, k) + Carry(a, b, k)) % Base])

\* what digit k of a - b has to lend to the lower digits
Borrow(a, b, k) ==
    IF \E j \in 1 .. (k - 1) :
          /\ Digit(a, j) < Digit(b, j)
          /\ \A l \in (j + 1) .. (k - 1) : Digit(a, l) = Digit(b, l)
    THEN 1 ELSE 0

\* a - b for a >= b
BSub(a, b) ==
    IF b = << >> THEN a
    ELSE IF a = b THEN << >>
    ELSE Trim([k \in 1 .. Len(a) |->
                  (Digit(a, k) - Digit(b, k) - Borrow(a, b, k) + Base) % Base])

BLess(a, b) ==
    IF Len(a) # Len(b) THEN Len(a) < Len(b)
    ELSE \E k \in 1 .. Len(a) :
            /\ a[k] < b[k]
            /\ \A l \in (k + 1) .. Len(a) : a[l] = b[l]

\* a * Base^n
ShiftDigits(a, n) == IF a = << >> THEN a ELSE [k \in 1 .. n |-> 0] \o a

\* a * d for 0 <= d <= Base: the low halves of the digit products and, one
\* digit higher, their high halves
BMulSmall(a, d) ==
    IF a = << >> \/ d = 0 THEN << >>
    ELSE BAdd(Trim([k \in 1 .. Len(a) |-> (a[k] * d) % Base]),
              ShiftDigits(Trim([k \in 1 .. Len(a) |-> (a[k] * d) \div Base]), 1))

\* a times the digits lo .. hi of b, each at its place
RECURSIVE MulDigits(_, _, _, _)
MulDigits(a, b, lo, hi) ==
    IF lo = hi THEN ShiftDigits(BMulSmall(a, b[lo]), lo - 1)
    ELSE BAdd(MulDigits(a, b, lo, (lo + hi) \div 2),
              MulDigits(a, b, (lo + hi) \div 2 + 1, hi))

BMul(a, b) == IF a = << >> \/ b = << >> THEN << >> ELSE MulDigits(a, b, 1, Len(b))

\* a with its digits in the opposite order
Reverse(a) == [k \in 1 .. Len(a) |-> a[Len(a) + 1 - k]]

\* the division of the digits k, k - 1, ..., 1 of a into the remainder r:
\* the quotient, highest digit first, and the remainder
RECURSIVE DivSmallAt(_, _, _, _)
DivSmallAt(a, d, k, r) ==
    IF k = 0 THEN [q |-> << >>, r |-> r]
    ELSE LET t    == r * Base + a[k]
             rest == DivSmallAt(a, d, k - 1, t % d)
         IN  [q |-> <<t \div d>> \o rest.q, r |-> rest.r]

\* quotient and remainder of a by d, 0 < d <= Base
BDivSmall(a, d) ==
    LET x == DivSmallAt(a, d, Len(a), 0) IN [q |-> Trim(Reverse(x.q)), r |-> x.r]

\* a * 2^n
BShl(a, n) == ShiftDigits(BMulSmall(a, 2^(n % DigitBits)), n \div DigitBits)

\* the digits of a from digit k + 1 on: a \div Base^k
DropDigits(a, k) == IF k >= Len(a) THEN << >> ELSE SubSeq(a, k + 1, Len(a))

\* a \div 2^n
BShr(a, n) ==
    LET b == DropDigits(a, n \div DigitBits)
        s == n % DigitBits
    IN  Trim([k \in 1 .. Len(b) |->
                  (Digit(b, k + 1) % 2^s) * 2^(DigitBits - s) + (b[k] \div 2^s)])

\* a % 2^n = 0
LowZero(a, n) ==
    /\ \A k \in 1 .. (n \div DigitBits) : Digit(a, k) = 0
    /\ Digit(a, n \div DigitBits + 1) % 2^(n % DigitBits) = 0

BOdd(a) == a # << >> /\ a[1] % 2 = 1

\* the number of binary digits of a digit
IntBits(n) == CHOOSE b \in 0 .. DigitBits : n < 2^b /\ (b = 0 \/ 2^(b - 1) <= n)

\* the number of binary digits of a
BitLen(a) == IF a = << >> THEN 0 ELSE DigitBits * (Len(a) - 1) + IntBits(a[Len(a)])

\* how many of the lowest binary digits of the digit n > 0 are zero
IntLowZeros(n) == CHOOSE z \in 0 .. DigitBits : n % 2^z = 0 /\ n % 2^(z + 1) # 0

\* how many of the lowest binary digits of a > 0 are zero
LowZeros(a) ==
    LET k == CHOOSE j \in 1 .. Len(a) : a[j] # 0 /\ \A l \in 1 .. (j - 1) : a[l] = 0
    IN  DigitBits * (k - 1) + IntLowZeros(a[k])

RECURSIVE IntOf(_)
IntOf(a) == IF a = << >> THEN 0 ELSE a[1] + Base * IntOf(Tail(a))

(* Binary floating point.  A finite value is (-1)^neg * m * 2^e with m a     *)
(* natural number that is odd or 0 (then e = 0); the two infinities and the  *)
(* NaN have m = 0 and e = 1, e = 2: every value has one representation.      *)

Val(neg, m, e) ==
    IF m = << >> THEN [neg |-> neg, m |-> m, e |-> 0]
    ELSE [neg |-> neg, m |-> BShr(m, LowZeros(m)), e |-> e + LowZeros(m)]

Zero == Val(FALSE, << >>, 0)
Infinity(neg) == [neg |-> neg, m |-> << >>, e |-> 1]
NotANumber == [neg |-> FALSE, m |-> << >>, e |-> 2]

IsZero(x) == x.m = << >> /\ x.e = 0
IsInf(x) == x.m = << >> /\ x.e = 1
IsNaN(x) == x.m = << >> /\ x.e = 2
IsFinite(x) == x.m # << >> \/ x.e = 0

OfInt(n) == IF n < 0 THEN Val(TRUE, BigOf(-n), 0) ELSE Val(FALSE, BigOf(n), 0)
Negate(x) == IF IsNaN(x) THEN x ELSE [x EXCEPT !.neg = ~x.neg]

\* the mantissas of x and y over their common exponent
Common(x, y) == IF x.e <= y.e THEN x.e ELSE y.e
Over(x, e) == BShl(x.m, x.e - e)

\* |x| < |y|, x and y finite
MagLess(x, y) == BLess(Over(x, Common(x, y)), Over(y, Common(x, y)))

\* x < y: false if one of them is the NaN; -0 and +0 are equal
Less(x, y) ==
    IF IsNaN(x) \/ IsNaN(y) \/ x = y THEN FALSE
    ELSE IF IsZero(x) /\ IsZero(y) THEN FALSE
    ELSE IF x.neg # y.neg THEN x.neg
    ELSE IF IsInf(x) THEN x.neg
    ELSE IF IsInf(y) THEN ~y.neg
    ELSE IF x.neg THEN MagLess(y, x) ELSE MagLess(x, y)

\* the exact sum, difference and product; inf - inf and 0 * inf are the NaN
Sum(x, y) ==
    LET e == Common(x, y)
        a == Over(x, e)
        b == Over(y, e)
    IN  IF IsNaN(x) \/ IsNaN(y) \/ (IsInf(x) /\ IsInf(y) /\ x.neg # y.neg)
        THEN NotANumber
        ELSE IF IsInf(x) THEN x
        ELSE IF IsInf(y) THEN y
        ELSE IF x.neg = y.neg THEN Val(x.neg, BAdd(a, b), e)
        ELSE IF BLess(a, b) THEN Val(y.neg, BSub(b, a), e)
        ELSE IF a = b THEN Zero
        ELSE Val(x.neg, BSub(a, b), e)

Diff(x, y) == Sum(x, Negate(y))

Prod(x, y) ==
    IF IsNaN(x) \/ IsNaN(y) \/ (IsInf(x) /\ IsZero(y)) \/ (IsZero(x) /\ IsInf(y))
    THEN NotANumber
    ELSE IF IsInf(x) \/ IsInf(y) THEN Infinity(x.neg # y.neg)
    ELSE IF IsZero(x) \/ IsZero(y) THEN Val(x.neg # y.neg, << >>, 0)
    ELSE Val(x.neg # y.neg, BMul(x.m, y.m), x.e + y.e)

\* float32 and float64: the significant bits p of the format, the exponent
\* of its smallest positive value 2^LeastExp(p), and the power of two
\* 2^TopExp(p) that no finite value reaches
Single == 24
Double == 53
LeastExp(p) == IF p = Single THEN -149 ELSE -1074
TopExp(p) == IF p = Single THEN 128 ELSE 1024

\* how many low bits of m * 2^e the format does not hold: those beyond p
\* significant bits, and those below 2^LeastExp(p) (the subnormal values
\* have fewer than p significant bits)
Excess(p, m, e) ==
    IF BitLen(m) - p >= LeastExp(p) - e THEN BitLen(m) - p ELSE LeastExp(p) - e

\* x is beyond the largest finite value of the format
Exceeds(p, x) == x.m # << >> /\ BitLen(x.m) + x.e > TopExp(p)

\* the largest finite value of the format: (2^p - 1) * 2^(TopExp(p) - p)
Largest(p, neg) == Val(neg, BSub(BShl(<<1>>, p), <<1>>), TopExp(p) - p)

\* overflow: a rounded value beyond the largest finite one is an infinity
InRange(p, x) == IF Exceeds(p, x) THEN Infinity(x.neg) ELSE x

\* m * 2^e, with more telling that the value is a little above it, rounded
\* to the format: to the nearest of its values, a tie to the even one
Round(p, neg, m, e, more) ==
    LET n == Excess(p, m, e)
        q == BShr(m, n)
        half == BOdd(BShr(m, n - 1))
        rest == more \/ ~LowZero(m, n - 1)
        up == half /\ (rest \/ BOdd(q))
    IN  IF n <= 0 THEN InRange(p, Val(neg, m, e))
        ELSE InRange(p, Val(neg, IF up THEN BAdd(q, <<1>>) ELSE q, e + n))

\* the values of the format on both sides: the nearest one towards 0 and
\* the nearest one away from 0
Chop(p, neg, m, e) ==
    LET n == Excess(p, m, e)
    IN  IF n <= 0 THEN Val(neg, m, e) ELSE Val(neg, BShr(m, n), e + n)

RoundDown(p, neg, m, e) ==
    IF Exceeds(p, Chop(p, neg, m, e)) THEN Largest(p, neg) ELSE Chop(p, neg, m, e)

RoundAway(p, neg, m, e, more) ==
    LET n == Excess(p, m, e)
        exact == ~more /\ (n <= 0 \/ LowZero(m, n))
    IN  IF exact THEN InRange(p, Chop(p, neg, m, e))
        ELSE IF n <= 0 THEN InRange(p, Val(neg, BAdd(BShl(m, -n), <<1>>), e + n))
        ELSE InRange(p, Val(neg, BAdd(BShr(m, n), <<1>>), e + n))

\* the cast to float32 and to float64
F32(x) == IF x.m = << >> THEN x ELSE Round(Single, x.neg, x.m, x.e, FALSE)
F64(x) == IF x.m = << >> THEN x ELSE Round(Double, x.neg, x.m, x.e, FALSE)

\* the bits of a digit are divided in groups of ChunkBits
ChunkBits == 5
Chunk == 2^ChunkBits

\* the division of the digit dig into the remainder r, a group of bits at a
\* time, highest first: the quotient digit and the remainder
DivDigit(r, dig, d) ==
    LET t1 == r * Chunk + (dig \div (Chunk * Chunk))
        t2 == (t1 % d) * Chunk + ((dig \div Chunk) % Chunk)
        t3 == (t2 % d) * Chunk + (dig % Chunk)
    IN  [q |-> ((t1 \div d) * Chunk + (t2 \div d)) * Chunk + (t3 \div d), r |-> t3 % d]

RECURSIVE DivAt(_, _, _, _)
DivAt(a, d, k, r) ==
    IF k = 0 THEN [q |-> << >>, r |-> r]
    ELSE LET s    == DivDigit(r, a[k], d)
             rest == DivAt(a, d, k - 1, s.r)
         IN  [q |-> <<s.q>> \o rest.q, r |-> rest.r]

\* quotient and remainder of a by the integer d, 0 < d < 2^26
BDiv(a, d) == LET x == DivAt(a, d, Len(a), 0) IN [q |-> Trim(Reverse(x.q)), r |-> x.r]

\* by how many binary digits x.m is extended so that the quotient by y.m has
\* more than p + 1 digits
Extend(p, x, y) ==
    IF p + 2 + BitLen(y.m) > BitLen(x.m) THEN p + 2 + BitLen(y.m) - BitLen(x.m) ELSE 0

\* x / y rounded to the format (y # 0, its mantissa below 2^26); inf / inf
\* is the NaN
Quot(p, x, y) ==
    LET s == Extend(p, x, y)
        d == BDiv(BShl(x.m, s), IntOf(y.m))
    IN  IF IsNaN(x) \/ IsNaN(y) \/ (IsInf(x) /\ IsInf(y)) THEN NotANumber
        ELSE IF IsInf(x) THEN Infinity(x.neg # y.neg)
        ELSE IF IsInf(y) \/ IsZero(x) THEN Val(x.neg # y.neg, << >>, 0)
        ELSE Round(p, x.neg # y.neg, d.q, x.e - y.e - s, d.r # 0)

\* the values of the format on both sides of x / y, y finite and not 0
QuotDown(p, x, y) ==
    LET s == Extend(p, x, y)
        d == BDiv(BShl(x.m, s), IntOf(y.m))
    IN  IF IsNaN(x) THEN x
        ELSE IF IsInf(x) THEN Infinity(x.neg # y.neg)
        ELSE IF IsZero(x) THEN Zero
        ELSE RoundDown(p, x.neg # y.neg, d.q, x.e - y.e - s)

QuotAway(p, x, y) ==
    LET s == Extend(p, x, y)
        d == BDiv(BShl(x.m, s), IntOf(y.m))
    IN  IF IsNaN(x) THEN x
        ELSE IF IsInf(x) THEN Infinity(x.neg # y.neg)
        ELSE IF IsZero(x) THEN Zero
        ELSE RoundAway(p, x.neg # y.neg, d.q, x.e - y.e - s, d.r # 0)

(* sin, in fixed point with 60 binary digits after the point *)

FracDigits == 4

\* 1 in fixed point
OneFx == ShiftDigits(<<1>>, FracDigits)

\* pi / 2 and 2 / pi with 14 digits (210 binary digits) after the point,
\* and cut to d digits after the point
WideDigits == 14
PiHalfWide ==
    <<4189, 18240, 19705, 546, 295, 20777, 14393, 11779, 13076, 19532, 6214, 2138,
      27985, 18703, 1>>
TwoOverPiWide ==
    <<31045, 527, 17465, 13095, 22693, 24685, 13533, 9194, 7519, 20449, 16722,
      18888, 24795, 20860>>
PiHalfTo(d) == DropDigits(PiHalfWide, WideDigits - d)
TwoOverPiTo(d) == DropDigits(TwoOverPiWide, WideDigits - d)
PiHalf == PiHalfTo(FracDigits + 1)

\* the digits after the point the reduction of x is computed with:
\* FracDigits + 1, and one more for every digit of the integer part of x
ReduceDigits(x) ==
    IF BitLen(x.m) + x.e > 0 THEN FracDigits + 1 + (BitLen(x.m) + x.e) \div DigitBits
    ELSE FracDigits + 1

\* |x| less the multiples of pi / 2 in it: the rest r, with FracDigits + 1
\* digits after the point, and the number k of multiples modulo 4
Reduce(x) ==
    LET d == ReduceDigits(x)
        a == BShl(x.m, x.e + DigitBits * d)
        k == DropDigits(BMul(a, TwoOverPiTo(d)), 2 * d)
        r == BSub(a, BMul(k, PiHalfTo(d)))
    IN  IF BLess(r, PiHalfTo(d))
        THEN [r |-> DropDigits(r, d - (FracDigits + 1)), k |-> Digit(k, 1) % 4]
        ELSE [r |-> DropDigits(BSub(r, PiHalfTo(d)), d - (FracDigits + 1)),
              k |-> (Digit(k, 1) + 1) % 4]

\* 1 - r2 / (n (n + 1)) * (1 - r2 / ((n + 2) (n + 3)) * (1 - ...)) from the
\* innermost factor acc outwards, n falling by 2 from factor to factor
RECURSIVE Horner(_, _, _)
Horner(r2, n, acc) ==
    IF n <= 0 THEN acc
    ELSE IF acc = << >> THEN Horner(r2, n - 2, OneFx)
    ELSE Horner(r2, n - 2,
                BSub(OneFx, BDivSmall(DropDigits(BMul(r2, acc), FracDigits),
                                      n * (n + 1)).q))

\* the degree at which the two series are cut off
LastTerm == 20

Square(r) == DropDigits(BMul(r, r), FracDigits)

\* r - r^3 / 3! + r^5 / 5! - ... and 1 - r^2 / 2! + r^4 / 4! - ..., 0 <= r <= pi / 4
SinSeries(r) ==
    LET r2 == Square(r)
    IN  IF r2 = << >> THEN r
        ELSE DropDigits(BMul(r, Horner(r2, LastTerm, OneFx)), FracDigits)

CosSeries(r) ==
    LET r2 == Square(r)
    IN  IF r2 = << >> THEN OneFx ELSE Horner(r2, LastTerm - 1, OneFx)

\* sin and cos of r, 0 <= r < pi / 2 with FracDigits + 1 digits after the point
SinFx(r) ==
    IF BLess(PiHalf, BMulSmall(r, 2)) THEN CosSeries(DropDigits(BSub(PiHalf, r), 1))
    ELSE SinSeries(DropDigits(r, 1))

CosFx(r) ==
    IF BLess(PiHalf, BMulSmall(r, 2)) THEN SinSeries(DropDigits(BSub(PiHalf, r), 1))
    ELSE CosSeries(DropDigits(r, 1))

\* how far the fixed-point sine may lie from the sine, in units of its last
\* place
SinSlack == 16

\* the float32 values next to a real number of magnitude below 1 that lies
\* within SinSlack of the fixed-point value v: the float32 below it, the
\* float32 above it, which is at most 1.0, and the nearest one
Neighbours(neg, v) ==
    LET e  == -(DigitBits * FracDigits)
        lo == IF BLess(<<SinSlack>>, v) THEN BSub(v, <<SinSlack>>) ELSE <<1>>
        hi == BAdd(v, <<SinSlack>>)
    IN  {RoundDown(Single, neg, lo, e),
         Round(Single, neg, v, e, FALSE),
         IF BLess(hi, OneFx) THEN RoundAway(Single, neg, hi, e, TRUE)
         ELSE Val(neg, <<1>>, 0)}

\* sinf: a float32 next to sin(x), which of the two depends on the
\* implementation of the sine.  The sine of an infinity or of the NaN is the
\* NaN, the sine of a zero is that zero, and the sine of a float32 x below
\* 2^-12 in magnitude lies between x and the float32 next to it towards zero
Sin(x) ==
    LET red  == Reduce(x)
        neg  == x.neg # (red.k >= 2)
        next == RoundDown(Single, x.neg, BSub(BShl(x.m, 30), <<1>>), x.e - 30)
    IN  IF x.m = << >> THEN (IF IsZero(x) THEN {x} ELSE {NotANumber})
        ELSE IF BitLen(x.m) + x.e < -12 THEN {next, x}
        ELSE IF red.k % 2 = 0 THEN Neighbours(neg, SinFx(red.r))
        ELSE Neighbours(neg, CosFx(red.r))

----------------------------------------------------------------------------
(* The notebook session (lines 1-452).  Cells may be executed in any order  *)
(* and any number of times, as the execution counts recorded in the         *)
(* notebook show; a cell that uses a name no executed cell has defined is   *)
(* not executed.                                                            *)

\* n = 100000, scaled down
NbN == 10

\* how many calls a session makes at most, and how often %timeit repeats a call
MaxLog == 6
MaxRepeat == 2

\* the noise arrays of a session are those of the seeds 0 .. MaxSeed
MaxSeed == 2

NbIdx == 0 .. (NbN - 1)

\* an element of a device array nothing has written: not a float value
NbUninit == [neg |-> FALSE, m |-> << >>, e |-> -1]

NoArr == [defined |-> FALSE, dtype |-> "none", ndim |-> 0, data |-> [j \in {} |-> Zero]]

Arr(dt, d) == [defined |-> TRUE, dtype |-> dt, ndim |-> 1, data |-> d]

\* a 0-d array made from a Python float: NumPy gives it dtype float64
Scalar0d(v) == [defined |-> TRUE, dtype |-> "float64", ndim |-> 0,
                data |-> [j \in {0} |-> v]]

\* x = np.arange(n).astype(np.float32)
xHost == Arr("float32", [j \in NbIdx |-> F32(OfInt(j))])

\* y = 2 * x
yHost == Arr("float32", [j \in NbIdx |-> F32(Prod(OfInt(2), xHost.data[j]))])

\* t = np.arange(n, dtype=np.float32)
tHost == Arr("float32", [j \in NbIdx |-> F32(OfInt(j))])

\* period = n / 23, a Python float
period == Quot(Double, OfInt(NbN), OfInt(23))

\* the literal 100.0
Amplitude == OfInt(100)

\* the literal 0.3, a Python float
PointThree == Quot(Double, OfInt(3), OfInt(10))

\* the float32 value m * 2^e, negated if neg
Flt(neg, m, e) == Val(neg, BigOf(m), e)

\* a sample of the float32 values (np.random.normal() * 3).astype(np.float32)
\* takes: 1.4901353, -0.4, 4.6080003, -3.8146975 and 0.010416667
NoiseValues ==
    << Flt(FALSE, 12500161, -23), Flt(TRUE, 13421773, -25), Flt(FALSE, 9663677, -21),
       Flt(TRUE, 16000001, -22), Flt(FALSE, 11184811, -30) >>

\* noise = (np.random.normal(size=n) * 3).astype(np.float32): n draws of an
\* unseeded pseudo-random generator.  The arrays a session may get are
\* sampled: one array of sample values for each seed, its elements differing
\* from index to index and from seed to seed
Noise(seed) ==
    Arr("float32",
        [j \in NbIdx |-> NoiseValues[((seed * (j + 1) + j * j) % Len(NoiseValues)) + 1]])

NoiseSamples == {Noise(seed) : seed \in 0 .. MaxSeed}

\* mutant: the ufunc subtracts
add_ufunc_sub(a, b) == F32(Diff(a, b))

\* def add_ufunc(x, y): return x + y     (float32(float32, float32))
add_ufunc(a, b) == F32(Sum(a, b))

\* mutant: max that returns its first argument
MaxFirst(a, b) == {a}

\* the values max(a, b) may have: b if it is greater than a, a otherwise.  If
\* a is the NaN no comparison holds: the max of Python returns a, the fmax of
\* the device returns b, and the compiled function may do either
Max(a, b) ==
    IF IsNaN(a) THEN {a, b}
    ELSE IF Less(a, b) THEN {b}
    ELSE {a}

\* the values of max(s - 0.3, 0.0) * amplitude for the float32 values s and
\* amplitude: the difference and the product are float64 operations, as 0.3
\* and 0.0 are Python floats, and the return type casts the product to float32
ClampScale(s, amp) ==
    {F32(F64(Prod(c, amp))) : c \in Max(F64(Diff(s, PointThree)), Zero)}

\* the values the body of make_pulses may take for float32 arguments, in the
\* order of their evaluation: the float32 quotient i / period, its sine and
\* the returned value
PulseSteps(j, per, amp) ==
    LET x == Quot(Single, j, per)
    IN  UNION {{[quotient |-> x, sine |-> s, result |-> r] : r \in ClampScale(s, amp)}
                  : s \in Sin(x)}

\* def make_pulses(i, period, amplitude):
\*     return max(math.sin(i / period) - 0.3, 0.0) * amplitude
\* the values the call may return
make_pulses(j, per, amp) == {p.result : p \in PulseSteps(j, per, amp)}

\* the arrays of the first k results of make_pulses applied to each element
\* of t, as sequences
RECURSIVE PulseArrays(_, _, _, _)
PulseArrays(t, per, amp, k) ==
    IF k = 0 THEN {<< >>}
    ELSE {Append(a, v) : a \in PulseArrays(t, per, amp, k - 1),
                         v \in make_pulses(t[k - 1], per, amp)}

\* the signatures the two ufuncs were compiled for
AddTypes == <<"float32", "float32">>
PulseTypes == <<"float32", "float32", "float32">>

\* an argument as the dispatcher sees it: a Python scalar has no array type
PyScalar == [defined |-> TRUE, dtype |-> "any", ndim |-> 0, data |-> [j \in {} |-> Zero]]

\* mutant: array arguments are cast to the compiled types
ResolveSignatureCasting(formal, args) == TRUE

\* _resolve_signature: array arguments (host or device) must have exactly the
\* compiled types; scalar arguments are coerced
ResolveSignature(formal, args) ==
    \A k \in 1 .. Len(formal) : args[k].dtype = "any" \/ args[k].dtype = formal[k]

Entry(op, err, c) == [op |-> op, err |-> err, h2d |-> c.h2d, d2h |-> c.d2h, alloc |-> c.alloc]

Cost(h, d, a) == [h2d |-> h, d2h |-> d, alloc |-> a]

DevNames == {"x_device", "y_device", "out_device", "pulse_device", "t_device",
             "period_device", "amp_device"}
HostNames == {"out_host", "pulses", "waveform"}

\* the copies and allocations of one ufunc call of the library, given where
\* its arguments live ("device", "host" or "scalar") and its out= ("device"
\* or "none").  Every argument that is not a device array is copied into a
\* new device array, a scalar as an array of its value.  Without out= the
\* output is a new device array, which is copied back to the host if no
\* argument is a device array and returned as it is otherwise.  With out= a
\* device array nothing is allocated for the output and nothing copied back
UfuncCost(kinds, out) ==
    LET staged == Cardinality({k \in 1 .. Len(kinds) : kinds[k] # "device"})
        onDev  == \E k \in 1 .. Len(kinds) : kinds[k] = "device"
        fresh  == IF out = "device" THEN 0 ELSE 1
        back   == IF out = "device" \/ onDev THEN 0 ELSE 1
    IN  Cost(staged, back, staged + fresh)

\* mutant: the call is given the host arrays x and y
AddIntoOutArgsHost == <<"x", "y">>

\* the arguments of add_ufunc(x_device, y_device, out=out_device)
AddIntoOutArgs == <<"x_device", "y_device">>

NbInit ==
    /\ nbDev = [d \in DevNames |-> NoArr]
    /\ nbHost = [h \in HostNames |-> NoArr]
    /\ nbH2D = 0
    /\ nbD2H = 0
    /\ nbAlloc = 0
    /\ nbLog = << >>

\* no call of make_pulses on its own is pending
NoCall ==
    /\ mpArgs = << >>
    /\ mpOut = << >>

Init == MainInit /\ NbInit /\ NoCall

RECURSIVE Repeat(_, _)
Repeat(e, r) == IF r = 0 THEN << >> ELSE <<e>> \o Repeat(e, r - 1)

\* the bookkeeping of r identical calls
Charge(op, err, c, r) ==
    /\ Len(nbLog) + r <= MaxLog
    /\ nbLog' = nbLog \o Repeat(Entry(op, err, c), r)
    /\ nbH2D' = nbH2D + r * c.h2d
    /\ nbD2H' = nbD2H + r * c.d2h
    /\ nbAlloc' = nbAlloc + r * c.alloc

\* %timeit add_ufunc(x, y)                                   (line 82)
TimeitAddHost ==
    /\ \E r \in 1 .. MaxRepeat :
         /\ ResolveSignature(AddTypes, <<xHost, yHost>>)
         /\ Charge("add_ufunc(x, y)", "none", UfuncCost(<<"host", "host">>, "none"), r)
    /\ UNCHANGED <<nbDev, nbHost>>
    /\ UNCHANGED <<cvars, mpvars>>

\* x_device = cuda.to_device(x); y_device = cuda.to_device(y)  (lines 148-149)
StageInputs ==
    /\ Len(nbLog) + 2 <= MaxLog
    /\ nbDev' = [nbDev EXCEPT !["x_device"] = xHost, !["y_device"] = yHost]
    /\ nbLog' = nbLog \o << Entry("to_device(x)", "none", Cost(1, 0, 1)),
                            Entry("to_device(y)", "none", Cost(1, 0, 1)) >>
    /\ nbH2D' = nbH2D + 2
    /\ nbAlloc' = nbAlloc + 2
    /\ UNCHANGED <<nbHost, nbD2H>>
    /\ UNCHANGED <<cvars, mpvars>>

\* %timeit add_ufunc(x_device, y_device)                      (line 177)
TimeitAddDevice ==
    /\ nbDev["x_device"].defined /\ nbDev["y_device"].defined
    /\ \E r \in 1 .. MaxRepeat :
         /\ ResolveSignature(AddTypes, <<nbDev["x_device"], nbDev["y_device"]>>)
         /\ Charge("add_ufunc(x_device, y_device)", "none",
                   UfuncCost(<<"device", "device">>, "none"), r)
    /\ UNCHANGED <<nbDev, nbHost>>
    /\ UNCHANGED <<cvars, mpvars>>

\* out_device = cuda.device_array(shape=(n,), dtype=np.float32)  (lines 193, 365)
AllocOut ==
    /\ nbDev' = [nbDev EXCEPT !["out_device"] = Arr("float32", [j \in NbIdx |-> NbUninit])]
    /\ Charge("device_array", "none", Cost(0, 0, 1), 1)
    /\ UNCHANGED nbHost
    /\ UNCHANGED <<cvars, mpvars>>

\* add_ufunc(x_device, y_device, out=out_device)      (lines 210 and 385):
\* an argument is the device array or the host array its name is bound to
AddIntoOut(r) ==
    LET Bound(name) == IF name \in DevNames THEN nbDev[name]
                       ELSE IF name = "x" THEN xHost
                       ELSE yHost
        Kind(name)  == IF name \in DevNames THEN "device" ELSE "host"
        a == Bound(AddIntoOutArgs[1])
        b == Bound(AddIntoOutArgs[2])
    IN  /\ a.defined /\ b.defined
        /\ nbDev["out_device"].defined
        /\ ResolveSignature(AddTypes, <<a, b>>)
        /\ Charge("add_ufunc(x_device, y_device, out=out_device)", "none",
                  UfuncCost(<<Kind(AddIntoOutArgs[1]), Kind(AddIntoOutArgs[2])>>,
                            "device"), r)
        /\ nbDev' = [nbDev EXCEPT !["out_device"].data =
                        [j \in NbIdx |-> add_ufunc(a.data[j], b.data[j])]]
        /\ UNCHANGED nbHost
        /\ UNCHANGED <<cvars, mpvars>>

\* %timeit add_ufunc(x_device, y_device, out=out_device)         (line 210);
\* the cell of line 385 is the same call made once
TimeitAddIntoOut == \E r \in 1 .. MaxRepeat : AddIntoOut(r)

\* out_host = out_device.copy_to_host()                   (lines 235, 394)
CopyToHost ==
    /\ nbDev["out_device"].defined
    /\ nbHost' = [nbHost EXCEPT !["out_host"] = nbDev["out_device"]]
    /\ Charge("copy_to_host", "none", Cost(0, 1, 0), 1)
    /\ UNCHANGED nbDev
    /\ UNCHANGED <<cvars, mpvars>>

\* the arrays make_pulses(t, period, 100.0) may return: the ufunc is applied
\* to each element of t, with the two Python floats coerced to float32
HostPulses ==
    {[j \in NbIdx |-> a[j + 1]] :
        a \in PulseArrays(tHost.data, F32(period), F32(Amplitude), NbN)}

\* pulses = make_pulses(t, period, 100.0)                       (line 297);
\* the sine of a session is one function: executing the cell again gives the
\* array it gave before
MakePulsesHost ==
    /\ ResolveSignature(PulseTypes, <<tHost, PyScalar, PyScalar>>)
    /\ \E p \in HostPulses :
          /\ nbHost["pulses"].defined => p = nbHost["pulses"].data
          /\ nbHost' = [nbHost EXCEPT !["pulses"] = Arr("float32", p)]
    /\ Charge("make_pulses(t, period, 100.0)", "none",
              UfuncCost(<<"host", "scalar", "scalar">>, "none"), 1)
    /\ UNCHANGED nbDev
    /\ UNCHANGED <<cvars, mpvars>>

\* add_ufunc applied to each element of pulses and noise, for every array
\* pulses and every array noise a session may have
Waveforms ==
    [p \in HostPulses |->
        [noise \in NoiseSamples |-> [j \in NbIdx |-> add_ufunc(p[j], noise.data[j])]]]

\* waveform = add_ufunc(pulses, noise)                          (line 306)
Waveform ==
    /\ nbHost["pulses"].defined
    /\ Charge("add_ufunc(pulses, noise)", "none", UfuncCost(<<"host", "host">>, "none"), 1)
    /\ \E noise \in NoiseSamples :
         /\ ResolveSignature(AddTypes, <<nbHost["pulses"], noise>>)
         /\ nbHost' = [nbHost EXCEPT !["waveform"] =
                Arr("float32", Waveforms[nbHost["pulses"].data][noise])]
    /\ UNCHANGED nbDev
    /\ UNCHANGED <<cvars, mpvars>>

\* pulse_device = cuda.to_device(pulses)                        (line 356)
StagePulses ==
    /\ nbHost["pulses"].defined
    /\ nbDev' = [nbDev EXCEPT !["pulse_device"] = nbHost["pulses"]]
    /\ Charge("to_device(pulses)", "none", Cost(1, 0, 1), 1)
    /\ UNCHANGED nbHost
    /\ UNCHANGED <<cvars, mpvars>>

\* the last cell (lines 446-450): it stages t and the two scalars, allocates
\* pulse_device and calls make_pulses on the device arrays
FullGpuCell ==
    LET pd  == Arr("float32", [j \in NbIdx |-> NbUninit])
        td  == tHost
        prd == Scalar0d(period)
        ad  == Scalar0d(Amplitude)
        ok  == ResolveSignature(PulseTypes, <<td, prd, ad>>)
        written == IF ok
                   THEN {[j \in NbIdx |-> a[j + 1]] :
                            a \in PulseArrays(td.data, F32(prd.data[0]),
                                              F32(ad.data[0]), NbN)}
                   ELSE {pd.data}
        cost == IF ok THEN UfuncCost(<<"device", "device", "device">>, "device")
                ELSE Cost(0, 0, 0)
    IN  /\ Len(nbLog) + 5 <= MaxLog
        /\ \E w \in written :
              nbDev' = [nbDev EXCEPT
                  !["t_device"] = td, !["period_device"] = prd, !["amp_device"] = ad,
                  !["pulse_device"] = [pd EXCEPT !.data = w]]
        /\ nbLog' = nbLog \o
              << Entry("device_array", "none", Cost(0, 0, 1)),
                 Entry("to_device(t)", "none", Cost(1, 0, 1)),
                 Entry("to_device(period)", "none", Cost(1, 0, 1)),
                 Entry("to_device(100.0)", "none", Cost(1, 0, 1)),
                 Entry("make_pulses(t_device, period_device, amp_device, out=pulse_device)",
                       IF ok THEN "none" ELSE "TypeError", cost) >>
        /\ nbH2D' = nbH2D + 3
        /\ nbAlloc' = nbAlloc + 4
        /\ UNCHANGED <<nbHost, nbD2H>>
        /\ UNCHANGED <<cvars, mpvars>>

Next ==
    \/ HostMalloc("malloc_a", "a")
    \/ HostMalloc("malloc_b", "b")
    \/ HostMalloc("malloc_out", "out")
    \/ InitStep
    \/ InitDone
    \/ CudaMalloc("cudaMalloc_a", "d_a")
    \/ CudaMalloc("cudaMalloc_b", "d_b")
    \/ CudaMalloc("cudaMalloc_out", "d_out")
    \/ MemcpyH2D("h2d_a", "d_a", "a")
    \/ MemcpyH2D("h2d_b", "d_b", "b")
    \/ Launch
    \/ \E t \in Threads : KernelStep(t)
    \/ KernelExit
    \/ MemcpyD2H("d2h_out", "out", "d_out")
    \/ VerifyStep
    \/ VerifyDone
    \/ PrintOut0
    \/ PrintPassed
    \/ CudaFree("cudaFree_a", "d_a")
    \/ CudaFree("cudaFree_b", "d_b")
    \/ CudaFree("cudaFree_out", "d_out")
    \/ HostFree("free_a", "a")
    \/ HostFree("free_b", "b")
    \/ HostFree("free_out", "out")

Spec == Init /\ [][Next]_vars

\* the host thread keeps executing main and the device executes a launched
\* kernel: some enabled step of the program is eventually taken
FairSpec == Spec /\ WF_vars(Next)

NbNext ==
    \/ TimeitAddHost
    \/ StageInputs
    \/ TimeitAddDevice
    \/ AllocOut
    \/ TimeitAddIntoOut
    \/ CopyToHost
    \/ MakePulsesHost
    \/ Waveform
    \/ StagePulses
    \/ FullGpuCell

NbSpec == Init /\ [][NbNext]_vars

----------------------------------------------------------------------------
(* make_pulses as a function of float32 arguments *)

\* the largest index i a call is given
PulseMaxI == 355

\* period: 1.0, 226.0, -7.0, the notebook's n / 23 as a float32, and 2^-126,
\* the smallest normal float32, for which i / period is beyond 2^126 and
\* overflows to infinity from i = 4 on
Periods == {OfInt(1), OfInt(226), OfInt(-7), F32(period), Flt(FALSE, 1, -126)}

\* amplitude: -1.0, 0.0, 1.0, 7.0, the notebook's 100.0, 2^-140, for which
\* the results are subnormal, and infinity
Amplitudes ==
    {OfInt(-1), OfInt(0), OfInt(1), OfInt(7), F32(Amplitude), Flt(FALSE, 1, -140),
     Infinity(FALSE)}

PulseInputs ==
    {<<F32(OfInt(ii)), per, amp>> : ii \in 0 .. PulseMaxI, per \in Periods, amp \in Amplitudes}

PulseInit ==
    /\ MainInit
    /\ NbInit
    /\ mpArgs \in PulseInputs
    /\ mpOut = << >>

\* the element-wise call make_pulses(i, period, amplitude)     (lines 274-276):
\* mpOut keeps the values it computes, the last of them the value returned;
\* the call takes one of the values the sine and the max may have
CallMakePulses ==
    /\ mpArgs # << >>
    /\ mpOut = << >>
    /\ \E p \in PulseSteps(mpArgs[1], mpArgs[2], mpArgs[3]) : mpOut' = <<p>>
    /\ UNCHANGED <<cvars, nbvars, mpArgs>>

PulseNext == CallMakePulses

PulseSpec == PulseInit /\ [][PulseNext]_vars

----------------------------------------------------------------------------
(* Properties of the C program *)

Called(p) == \E k \in 1 .. Len(calls) : calls[k] = p

RECURSIVE Filter(_, _)
Filter(seq, keep) ==
    IF seq = << >> THEN << >>
    ELSE IF Head(seq) \in keep THEN <<Head(seq)>> \o Filter(Tail(seq), keep)
    ELSE Filter(Tail(seq), keep)

IsPrefix(s, t) == Len(s) <= Len(t) /\ \A k \in 1 .. Len(s) : s[k] = t[k]

ComputeCalls ==
    {"cudaMalloc_a", "cudaMalloc_b", "cudaMalloc_out", "h2d_a", "h2d_b",
     "launch", "d2h_out"}

\* C1: once main has initialised a and b, copied both to the device, run
\* vector_add and copied d_out back (each of these calls having succeeded),
\* every out[i] equals a[i] + b[i] within 1e-6, namely 3.0.
C1_OutIsSum ==
    (Called("d2h_out") /\ failed \cap ComputeCalls = {})
        => \A j \in Idx :
              /\ hbuf["out"][j] = Three
              /\ hbuf["a"][j] = One /\ hbuf["b"][j] = Two
              /\ Abs(hbuf["out"][j] - (hbuf["a"][j] + hbuf["b"][j]))
                     <= One \div MAX_ERR_DEN

C1_Witness ==
    /\ pc = "verify" /\ i = N
    /\ failed \cap ComputeCalls = {}
    /\ kstate = "done"

\* out[j] deviates from a[j] + b[j] by more than 1e-6 (exact arithmetic)
DeviatesMore(j) ==
    Abs(hbuf["out"][j] - (hbuf["a"][j] + hbuf["b"][j])) > One \div MAX_ERR_DEN

\* C3: the program ends in exactly two ways, main running to its end or the
\* assertion aborting the process; it has aborted only with an element that
\* deviates from a[i] + b[i] by more than 1e-6 and has succeeded only with
\* every element within 1e-6.
C3_TwoOutcomes ==
    /\ pc \notin {"returned", "aborted"} => ENABLED Next
    /\ pc \in {"returned", "aborted"} => ~ENABLED Next
    /\ pc = "aborted" => i \in Idx /\ DeviatesMore(i)
    /\ PosOf(IF pc = "aborted" THEN "verify" ELSE pc) > PosOf("verify")
          => \A j \in Idx : hbuf["out"][j] # Uninit /\ ~DeviatesMore(j)

C3_Witness ==
    /\ pc = "aborted"
    /\ Len(checked) = N
    /\ \A j \in 0 .. (N - 2) : ~DeviatesMore(j)

\* the checked indices whose assertion evaluated to false
FailedIdx ==
    {j \in Idx : /\ \E k \in 1 .. Len(checked) : checked[k] = j
                 /\ ~AssertHolds(hbuf["out"][j], hbuf["a"][j], hbuf["b"][j])}

\* C4: a failed assertion aborts at once: the failing index is the last one
\* checked, no larger index is checked, "PASSED" is not printed, no cudaFree
\* or free is executed, and nothing runs afterwards.
C4_AbortIsImmediate ==
    FailedIdx # {} =>
        /\ pc = "aborted"
        /\ FailedIdx = {i}
        /\ checked = [k \in 1 .. (i + 1) |-> k - 1]
        /\ \A k \in 1 .. Len(stdout) : stdout[k].text # "PASSED"
        /\ \A c \in {"cudaFree_a", "cudaFree_b", "cudaFree_out",
                     "free_a", "free_b", "free_out"} : ~Called(c)
        /\ \A h \in HostBufs : hstate[h] = "allocated"
        /\ \A d \in DevBufs : dstate[d] # "freed"
        /\ ~ENABLED Next

C4_Witness ==
    /\ pc = "aborted"
    /\ i = 1
    /\ \A d \in DevBufs : dstate[d] = "allocated"

\* C5: the assertion is the only error handling: a CUDA call that returns an
\* error leaves main at its next statement, and the only step of main that
\* leaves the order of its statements is the failed assertion.
C5_OnlyAssertStops ==
    [][ /\ failed' # failed => pc' = After(pc)
        /\ (pc' # pc /\ pc' # After(pc))
              => /\ pc = "verify" /\ pc' = "aborted"
                 /\ ~AssertHolds(hbuf'["out"][i], hbuf["a"][i], hbuf["b"][i]) ]_vars

C5_Witness ==
    /\ pc = "returned"
    /\ failed = {"cudaMalloc_a", "cudaMalloc_b", "cudaMalloc_out", "h2d_a",
                 "h2d_b", "launch", "d2h_out", "cudaFree_a", "cudaFree_b",
                 "cudaFree_out"}

DeviceSteps ==
    ComputeCalls \cup {"verify", "cudaFree_a", "cudaFree_b", "cudaFree_out"}

ExpectedDeviceTrace ==
    << "cudaMalloc_a", "cudaMalloc_b", "cudaMalloc_out",
       "h2d_a", "h2d_b",
       "launch",
       "d2h_out",
       "verify",
       "cudaFree_a", "cudaFree_b", "cudaFree_out" >>

\* C6: main issues three device allocations, then the two host-to-device
\* copies, then one launch, then one device-to-host copy, then verifies, then
\* frees, each once and in this order; the kernel runs and memory is copied
\* only with the allocation of the buffers issued and none of them freed.
C6_FixedOrder ==
    /\ IsPrefix(Filter(calls, DeviceSteps), ExpectedDeviceTrace)
    /\ pc = "returned" => Filter(calls, DeviceSteps) = ExpectedDeviceTrace
    /\ (kstate = "running" \/ writes # << >>)
          => /\ Called("cudaMalloc_a") /\ Called("cudaMalloc_b")
             /\ Called("cudaMalloc_out") /\ Called("launch")
    /\ kstate = "running"
          => /\ ~Called("cudaFree_a") /\ ~Called("cudaFree_b")
             /\ ~Called("cudaFree_out")
             /\ \A d \in DevBufs : dstate[d] # "freed"
    /\ \A d \in DevBufs : dbuf[d] # Fresh => dstate[d] # "none"

C6_Witness ==
    /\ pc = "returned"
    /\ failed = {}
    /\ \A d \in DevBufs : dstate[d] = "freed"

\* C7: one block of one thread: a single thread executes vector_add and
\* stores out[0], out[1], ..., out[n-1] in increasing order, each once.
C7_SequentialKernel ==
    /\ Cardinality(Threads) = 1
    /\ writes = [k \in 1 .. Len(writes) |-> <<1, k - 1>>]
    /\ Len(writes) <= kn
    /\ kstate = "done" => Len(writes) = N

C7_Witness ==
    /\ kstate = "done"
    /\ Len(writes) = N
    /\ pc = "d2h_out"

\* C10: the blocking copies are the synchronisation: the device-to-host copy
\* never happens while the kernel is running, so when out is filled the
\* launched kernel has stored all N elements of d_out; and the kernel starts
\* only after both host-to-device copies have returned.
C10_CopyBarriers ==
    /\ Called("d2h_out") => kstate # "running"
    /\ (Called("d2h_out") /\ "d2h_out" \notin failed /\ "launch" \notin failed)
          => /\ kstate = "done"
             /\ \A j \in Idx : \E k \in 1 .. Len(writes) : writes[k][2] = j
             /\ \A j \in Idx : dbuf["d_out"][j] \in {Uninit, hbuf["out"][j]}
             /\ failed \cap {"h2d_a", "h2d_b"} = {} => hbuf["out"] = dbuf["d_out"]
             /\ failed \cap {"h2d_a", "h2d_b"} = {}
                   => \A j \in Idx : dbuf["d_out"][j] # Uninit
    /\ kstate # "idle" => Called("h2d_a") /\ Called("h2d_b")

C10_Witness ==
    /\ pc = "verify" /\ i = 0
    /\ failed = {}
    /\ kstate = "done"
    /\ hbuf["out"] = dbuf["d_out"]

Printed(txt) == \E k \in 1 .. Len(stdout) : stdout[k].text = txt

\* out[j] differs from a[j] + b[j] by 1e-6 or more (exact arithmetic)
DiffersAtLeast(j) ==
    Abs(hbuf["out"][j] - (hbuf["a"][j] + hbuf["b"][j])) > (One - 1) \div MAX_ERR_DEN

\* C11: "PASSED" is printed only after the verification loop has checked
\* every index 0..N-1 with every check succeeding: whenever it is printed no
\* out[i] differs from a[i] + b[i] by 1e-6 or more.
C11_PassedOnlyAfterAllChecks ==
    Printed("PASSED") =>
        /\ checked = [k \in 1 .. N |-> k - 1]
        /\ Called("verify")
        /\ FailedIdx = {}
        /\ pc # "aborted"
        /\ \A j \in Idx : hbuf["out"][j] # Uninit /\ ~DiffersAtLeast(j)

C11_Witness ==
    /\ pc = "cudaFree_a"
    /\ Printed("PASSED")
    /\ \E j \in Idx : hbuf["out"][j] = Three + 4

Capacity(buf) == Cardinality(DOMAIN buf)

\* C12: every access stays in bounds: the kernel touches a[i], b[i], out[i]
\* only for 0 <= i < n, the n of the launch is the element count N of all
\* cudaMalloc and cudaMemcpy sizes, and the host loops touch only 0..N-1 of
\* the N-element host buffers.
C12_InBounds ==
    /\ ElemCount(BufBytes) = N
    /\ \A h \in HostBufs : hstate[h] = "allocated" => DOMAIN hbuf[h] = 0 .. (N - 1)
    /\ \A d \in DevBufs : DOMAIN dbuf[d] = 0 .. (N - 1)
    /\ kstate # "idle" => kn = N
    /\ \A th \in Threads :
          /\ 0 <= ki[th] /\ ki[th] <= kn
          /\ (kstate = "running" /\ ki[th] < kn)
                => \A d \in DevBufs : ki[th] \in DOMAIN dbuf[d]
    /\ \A k \in 1 .. Len(writes) : writes[k][2] \in DOMAIN dbuf["d_out"]
    /\ pc \in {"init", "verify"}
          => /\ 0 <= i /\ i <= N
             /\ i < N => \A h \in HostBufs : i \in DOMAIN hbuf[h]
    /\ \A k \in 1 .. Len(checked) : checked[k] \in DOMAIN hbuf["out"]

C12_Witness ==
    /\ kstate = "running"
    /\ \A th \in Threads : ki[th] = N - 1
    /\ pc = "d2h_out"
    /\ \A d \in DevBufs : dstate[d] = "allocated"

\* what a device input buffer holds once its host-to-device copy was called
Copied(call, h) == IF call \in failed THEN Fresh ELSE hbuf[h]

\* C13: the inputs are left unchanged: vector_add stores to out only, so d_a
\* and d_b hold what was copied into them throughout the kernel run, and the
\* host buffers a and b still hold 1.0 and 2.0 when the verification loop
\* reads them.
C13_InputsUnchanged ==
    /\ Called("init")
          => /\ hbuf["a"] = [j \in Idx |-> One]
             /\ hbuf["b"] = [j \in Idx |-> Two]
    /\ Called("h2d_a") => dbuf["d_a"] = Copied("h2d_a", "a")
    /\ Called("h2d_b") => dbuf["d_b"] = Copied("h2d_b", "b")
    /\ kstate \in {"running", "done"}
          => /\ Called("h2d_a") /\ Called("h2d_b")
             /\ (Len(writes) > 0 /\ failed \cap {"h2d_a", "h2d_b"} = {})
                   => \E j \in Idx : dbuf["d_out"][j] # Uninit

C13_Witness ==
    /\ pc = "verify" /\ i = N - 1
    /\ kstate = "done"
    /\ failed = {}
    /\ dbuf["d_a"] = [j \in Idx |-> One]
    /\ dbuf["d_b"] = [j \in Idx |-> Two]

\* the call that releases each buffer, and the buffers each statement uses
ReleaseOf ==
    [a |-> "free_a", b |-> "free_b", out |-> "free_out",
     d_a |-> "cudaFree_a", d_b |-> "cudaFree_b", d_out |-> "cudaFree_out"]

Uses(call) ==
    CASE call = "init"       -> {"a", "b"}
      [] call = "h2d_a"      -> {"a", "d_a"}
      [] call = "h2d_b"      -> {"b", "d_b"}
      [] call = "launch"     -> {"d_a", "d_b", "d_out"}
      [] call = "d2h_out"    -> {"out", "d_out"}
      [] call = "verify"     -> {"a", "b", "out"}
      [] call = "print_out0" -> {"out"}
      [] OTHER               -> {}

Count(call) == Cardinality({k \in 1 .. Len(calls) : calls[k] = call})

\* C14: on the success path each of the six buffers is released exactly
\* once, after its last use: none is freed twice, none is used after its
\* release, and none is still allocated when main returns.
C14_ReleasedOnce ==
    /\ \A buf \in HostBufs \cup DevBufs :
          /\ Count(ReleaseOf[buf]) <= 1
          /\ \A k \in 1 .. Len(calls) :
                calls[k] = ReleaseOf[buf]
                    => \A n \in (k + 1) .. Len(calls) : buf \notin Uses(calls[n])
          /\ pc = "returned" => Count(ReleaseOf[buf]) = 1
    /\ \A d \in DevBufs :
          (Called(ReleaseOf[d]) \/ dstate[d] = "freed") => kstate # "running"
    /\ \A h \in HostBufs :
          /\ pc \in {"init", "verify", "print_out0", "h2d_a", "h2d_b", "d2h_out"}
                => hstate[h] # "freed"
          /\ pc = "returned" => hstate[h] = "freed"
    /\ (pc = "returned" /\ failed = {})
          => \A d \in DevBufs : dstate[d] = "freed"

C14_Witness ==
    /\ pc = "returned"
    /\ failed = {}
    /\ Printed("PASSED")
    /\ \A buf \in HostBufs \cup DevBufs : Count(ReleaseOf[buf]) = 1

Finished == pc \in {"returned", "aborted"}

\* C15: the program terminates: the kernel loop ends after exactly n
\* iterations, the initialisation and verification loops after at most N
\* iterations each, and every run reaches the end of main or the assertion
\* abort.
C15_Terminates ==
    /\ [](/\ pc \in {"init", "verify"} => i <= N
          /\ Len(checked) <= N
          /\ Len(writes) <= kn
          /\ kstate = "done" => /\ Len(writes) = kn
                                /\ \A th \in Threads : ki[th] = kn)
    /\ <>Finished

C15_Witness ==
    /\ pc = "aborted"
    /\ kstate = "done"
    /\ Len(writes) = N
    /\ Len(checked) = N

----------------------------------------------------------------------------
(* Properties of the notebook session *)

OpAddIntoOut == "add_ufunc(x_device, y_device, out=out_device)"
OpFullGpu == "make_pulses(t_device, period_device, amp_device, out=pulse_device)"

LastOp == nbLog[Len(nbLog)].op

\* C2: with x[i] = i and y[i] = 2 x[i] staged, add_ufunc(x_device, y_device,
\* out=out_device) followed by out_device.copy_to_host() gives a host array of
\* shape (n,) with element i equal to 3 i (0, 3, 6, ..., 27 for the first ten).
C2_SumIsThreeTimesIndex ==
    (/\ Len(nbLog) >= 2
     /\ nbLog[Len(nbLog) - 1].op = OpAddIntoOut
     /\ LastOp = "copy_to_host")
        => /\ nbHost["out_host"].defined
           /\ nbHost["out_host"].ndim = 1
           /\ DOMAIN nbHost["out_host"].data = 0 .. (NbN - 1)
           /\ \A j \in NbIdx : nbHost["out_host"].data[j] = OfInt(3 * j)
           /\ \A j \in NbIdx \cap 0 .. 9 :
                 nbHost["out_host"].data[j]
                    = OfInt(<<0, 3, 6, 9, 12, 15, 18, 21, 24, 27>>[j + 1])

C2_Witness ==
    /\ Len(nbLog) >= 2
    /\ nbLog[Len(nbLog) - 1].op = OpAddIntoOut
    /\ LastOp = "copy_to_host"
    /\ nbHost["out_host"].data[9] = OfInt(27)

\* the staged sequence: to_device(x), to_device(y), device_array, then k >= 1
\* calls with out=out_device, then one copy_to_host
Staged(log) ==
    /\ Len(log) >= 5
    /\ log[1].op = "to_device(x)"
    /\ log[2].op = "to_device(y)"
    /\ log[3].op = "device_array"
    /\ \A k \in 4 .. (Len(log) - 1) : log[k].op = OpAddIntoOut
    /\ log[Len(log)].op = "copy_to_host"

\* C8: a session that is the staged sequence has made two host-to-device
\* copies, one device-to-host copy and three allocations in all, whatever k
\* is; its calls with out=out_device copy and allocate nothing; a call
\* add_ufunc(x, y) on host arrays copies both inputs to the device and the
\* output back.
C8_CopiesOnlyAtTheEnds ==
    /\ Staged(nbLog) => nbH2D = 2 /\ nbD2H = 1 /\ nbAlloc = 3
    /\ \A k \in 1 .. Len(nbLog) :
          /\ nbLog[k].op = OpAddIntoOut
                => nbLog[k].h2d = 0 /\ nbLog[k].d2h = 0 /\ nbLog[k].alloc = 0
          /\ nbLog[k].op = "add_ufunc(x, y)"
                => nbLog[k].h2d = 2 /\ nbLog[k].d2h = 1

C8_Witness ==
    /\ Staged(nbLog)
    /\ Len(nbLog) = 6

\* C9: the call of the last cell, on device arrays of which period_device and
\* amp_device are staged scalars, raises TypeError and writes no result;
\* make_pulses(t, period, 100.0) on host arguments succeeds.
C9_DeviceScalarsRejected ==
    /\ \A k \in 1 .. Len(nbLog) :
          /\ nbLog[k].op = OpFullGpu => nbLog[k].err = "TypeError"
          /\ nbLog[k].op = "make_pulses(t, period, 100.0)" => nbLog[k].err = "none"
    /\ (nbLog # << >> /\ LastOp = OpFullGpu)
          => /\ nbDev["t_device"].dtype = "float32"
             /\ nbDev["pulse_device"].dtype = "float32"
             /\ DOMAIN nbDev["pulse_device"].data = 0 .. (NbN - 1)
             /\ nbDev["period_device"].ndim = 0 /\ nbDev["amp_device"].ndim = 0
             /\ \A j \in NbIdx : nbDev["pulse_device"].data[j] = NbUninit
    /\ (nbLog # << >> /\ LastOp = "make_pulses(t, period, 100.0)")
          => /\ nbHost["pulses"].defined
             /\ nbHost["pulses"].dtype = "float32"
             /\ DOMAIN nbHost["pulses"].data = 0 .. (NbN - 1)

C9_Witness ==
    /\ Len(nbLog) = 6
    /\ LastOp = OpFullGpu
    /\ nbLog[1].op = "make_pulses(t, period, 100.0)"
    /\ nbHost["pulses"].defined

----------------------------------------------------------------------------
(* Properties of make_pulses *)

\* s, the float32 the sine of the call returned for i / period, and the
\* value the call returned
PulseSin == mpOut[1].sine
PulseResult == mpOut[1].result

\* s > 0.3 and s <= 0.3; neither holds if s is the NaN
AboveThreshold == Less(OfInt(3), Prod(OfInt(10), PulseSin))
AtMostThreshold == ~IsNaN(PulseSin) /\ ~AboveThreshold

\* ten times the real number (s - 0.3) * amplitude
TenTimesScaled == Prod(Diff(Prod(OfInt(10), PulseSin), OfInt(3)), mpArgs[3])

\* the value part of the claim: 0 when s <= 0.3; otherwise (s - 0.3) *
\* amplitude as a float32, that is one of the two float32 values the real
\* number lies between; never negative for a non-negative amplitude
PulseValue ==
    /\ mpOut[1].quotient = Quot(Single, mpArgs[1], mpArgs[2])
    /\ AtMostThreshold => IsZero(PulseResult)
    /\ AboveThreshold =>
           PulseResult \in {QuotDown(Single, TenTimesScaled, OfInt(10)),
                            QuotAway(Single, TenTimesScaled, OfInt(10))}
    /\ ~Less(mpArgs[3], Zero) => ~Less(PulseResult, Zero)

\* C16 as stated: make_pulses clamps then scales, for every input, and for
\* a non-negative amplitude the result never exceeds 0.7 times the amplitude.
C16_NeverAboveSevenTenths ==
    mpOut # << >> =>
        /\ PulseValue
        /\ ~Less(mpArgs[3], Zero) =>
               ~Less(Prod(OfInt(7), mpArgs[3]), Prod(OfInt(10), PulseResult))

\* C16: make_pulses clamps then scales: for a finite amplitude, with s the
\* float32 its sine returns for i / period, the result is 0 when s <= 0.3 and
\* (s - 0.3) * amplitude rounded to a neighbouring float32 when s > 0.3; for
\* a non-negative amplitude the result is never negative and never exceeds
\* 0.7 times the amplitude rounded up to float32.
C16_ClampThenScale ==
    (mpOut # << >> /\ IsFinite(mpArgs[3])) =>
        /\ PulseValue
        /\ ~Less(mpArgs[3], Zero) =>
               ~Less(QuotAway(Single, Prod(OfInt(7), mpArgs[3]), OfInt(10)), PulseResult)

\* i / period = 355 / 226 is pi / 2 to float32 precision, the sine returns
\* 1.0, the float32 nearest to its sine, and the result for amplitude 7.0 is
\* 4.900000095..., the float32 above 4.9
C16_Witness ==
    /\ mpOut # << >>
    /\ mpArgs = <<OfInt(355), OfInt(226), OfInt(7)>>
    /\ PulseSin = OfInt(1)
    /\ PulseResult = Flt(FALSE, 10276045, -21)
    /\ PulseResult = QuotAway(Single, OfInt(49), OfInt(10))
    /\ Less(Prod(OfInt(7), mpArgs[3]), Prod(OfInt(10), PulseResult))

====
